---- MODULE Spec2Model ----
(***************************************************************************)
(* makofind: main() calls nftw(3C) with FTW_PHYS | FTW_MOUNT on each       *)
(* caller-supplied directory; nftw_cb() prints one manifest line per       *)
(* regular file and records errors in the global `error'.                  *)
(*                                                                         *)
(* The walk done by one nftw() call is unrolled into one step per object   *)
(* reported (or skipped) by the walker.  The file system, the outcome of   *)
(* every stat/opendir/printf and the readdir order are fixed at Init, so   *)
(* a run is a function of its environment.                                 *)
(***************************************************************************)
EXTENDS Integers, Sequences, FiniteSets, TLC

(* ---------------------------- bounds ----------------------------------- *)
MaxRoots  == 2      \* at most this many directories on the command line
MaxFaults == 1      \* at most this many objects with a failing syscall
MaxBlocks == 5      \* st_blocks of the smallest file ranges over 0..MaxBlocks
MaxDepth == 11      \* tree C nests at most this many directories below C

(* ------------------------- program constants --------------------------- *)
MAX_DESCRIPTORS == 10

(* --------------------------- file system ------------------------------- *)
\* Two trees.  A holds a file, a sub-directory with a file, a symbolic link
\* to that sub-directory and a directory on which another device is mounted.
\* B is a plain tree: a file and a sub-directory with a file.
Node == {"A", "A/f", "A/d", "A/d/g", "A/l", "A/m", "A/m/h",
         "B", "B/f", "B/d", "B/d/g"}
Roots == {"A", "B"}

\* A third tree, C: a file C.f and a chain of directories C.1 in C, C.2 in
\* C.1, ...; how many of them exist is chosen at Init (deep).
ChainNode(k) == IF k = 0 THEN "C" ELSE "C." \o ToString(k)
ChainDirs == {ChainNode(k) : k \in 0..MaxDepth}
ChainIdx(n) == CHOOSE k \in 0..MaxDepth : ChainNode(k) = n
AllNode == Node \cup ChainDirs \cup {"C.f"}

Kind(n) ==
  IF n \in {"A", "A/d", "A/m", "B", "B/d"} \cup ChainDirs THEN "dir"
  ELSE IF n = "A/l" THEN "symlink"
  ELSE "file"

\* readdir order of each directory (one of the two orders the model tries)
Entries(n) ==
  IF n = "A" THEN <<"A/f", "A/d", "A/l", "A/m">>
  ELSE IF n = "A/d" THEN <<"A/d/g">>
  ELSE IF n = "A/m" THEN <<"A/m/h">>
  ELSE IF n = "B" THEN <<"B/f", "B/d">>
  ELSE IF n = "B/d" THEN <<"B/d/g">>
  ELSE IF n = "C" THEN <<"C.f", ChainNode(1)>>
  ELSE IF n \in ChainDirs /\ ChainIdx(n) < MaxDepth
    THEN <<ChainNode(ChainIdx(n) + 1)>>
  ELSE <<>>

Parent(n) ==
  IF n \in {"A/f", "A/d", "A/l", "A/m"} THEN "A"
  ELSE IF n = "A/d/g" THEN "A/d"
  ELSE IF n = "A/m/h" THEN "A/m"
  ELSE IF n \in {"B/f", "B/d"} THEN "B"
  ELSE IF n = "B/d/g" THEN "B/d"
  ELSE IF n = "C.f" THEN "C"
  ELSE IF n \in ChainDirs /\ n # "C" THEN ChainNode(ChainIdx(n) - 1)
  ELSE n

LinkTarget(n) == IF n = "A/l" THEN "A/d" ELSE n

\* st_dev
Dev(n) == IF n \in {"A/m", "A/m/h"} THEN 2 ELSE 1

\* st_blocks of a file is blk + BlkOff, blk being chosen at Init
BlkOff(n) ==
  IF n = "A/f" THEN 0
  ELSE IF n = "A/d/g" THEN 1
  ELSE IF n = "A/m/h" THEN 2
  ELSE IF n = "B/f" THEN 5
  ELSE IF n = "B/d/g" THEN 4
  ELSE IF n = "C.f" THEN 3
  ELSE 0

StSize(n) == IF Kind(n) = "file" THEN 512 * BlkOff(n) + 7 ELSE 0
MtimSec(n) == IF Kind(n) = "file" THEN 1700000000 + BlkOff(n) ELSE 0
MtimNsec(n) == IF Kind(n) = "file" THEN 123456789 - BlkOff(n) ELSE 0

RECURSIVE Below(_, _)
\* n lies strictly below directory d
Below(n, d) ==
  IF Parent(n) = n THEN FALSE
  ELSE Parent(n) = d \/ Below(Parent(n), d)

Reverse(s) == [k \in 1..Len(s) |-> s[Len(s) + 1 - k]]

(* --------------------------- environment ------------------------------- *)
\* What can go wrong at an object: stat fails (NS), the directory cannot be
\* read (DNR), the walker hands over an object type the callback does not
\* know (UNK), the walker itself fails there and nftw returns -1 (ERR), or
\* the printf of the manifest line fails (PF).
FaultKinds == {"NS", "DNR", "UNK", "ERR", "PF"}

FaultFits(n, k) ==
  /\ k = "DNR" => Kind(n) = "dir"
  /\ k = "PF" => Kind(n) = "file"

(* ----------------------------- state ----------------------------------- *)
VARIABLES
  argv,      \* the directories given on the command line, argv[1..argc-1]
  fault,     \* Node -> FaultKinds or "none"
  rev,       \* readdir returns the entries in reverse order
  blk,       \* base of st_blocks
  deep,      \* the directories C.1 .. C.deep exist
  pc,        \* "main", "nftw", "ret", "return", "exit"
  i,         \* loop index of main
  ret,       \* return value of the last nftw()
  error,     \* the global
  dev,       \* device of the root of the walk in progress
  stack,     \* directories being read: <<[dir, rest, fd]>>, top first
  visited,   \* history of nftw_cb() calls
  skipped,   \* history of entries the walker did not report (FTW_MOUNT)
  manifest,  \* lines written to stdout
  walks,     \* history of the values returned by nftw()
  status,    \* exit status, -1 while running
  run,       \* 1, or 2 when the program is run a second time
  first      \* stdout of the first run

vars == <<argv, fault, rev, blk, deep, pc, i, ret, error, dev, stack, visited,
          skipped, manifest, walks, status, run, first>>

env == <<argv, fault, rev, blk, deep>>

argc == Len(argv) + 1

RootLists == UNION {[1..k -> Roots] : k \in 0..MaxRoots}

FaultMaps ==
  UNION {{[n \in Node |-> IF n \in F THEN ft[n] ELSE "none"] :
            ft \in {g \in [F -> FaultKinds] : \A n \in F : FaultFits(n, g[n])}} :
         F \in {S \in SUBSET Node : Cardinality(S) <= MaxFaults}}

\* the program at its start
Start ==
  /\ pc = "main"
  /\ i = 1
  /\ ret = 0
  /\ error = 0
  /\ dev = 0
  /\ stack = <<>>
  /\ visited = <<>>
  /\ skipped = <<>>
  /\ manifest = <<>>
  /\ walks = <<>>
  /\ status = -1
  /\ run = 1
  /\ first = <<>>

Init ==
  /\ argv \in RootLists
  /\ fault \in FaultMaps
  /\ rev \in BOOLEAN
  /\ blk = 0
  /\ deep = 0
  /\ Start

\* Runs without faults over files of every size
InitBlocks ==
  /\ argv \in RootLists
  /\ fault = [n \in Node |-> "none"]
  /\ rev \in BOOLEAN
  /\ blk \in 0..MaxBlocks
  /\ deep = 0
  /\ Start

\* Runs over the deep tree C and the plain tree B, with at most one fault,
\* in C
DeepRootLists == UNION {[1..k -> {"C", "B"}] : k \in 0..MaxRoots}

DeepFaultMaps ==
  {[n \in AllNode |-> "none"]} \cup
  UNION {{[n \in AllNode |-> IF n = m THEN k ELSE "none"] :
            k \in {q \in FaultKinds : FaultFits(m, q)}} :
         m \in ChainDirs \cup {"C.f"}}

InitDeep ==
  /\ argv \in DeepRootLists
  /\ fault \in DeepFaultMaps
  /\ rev \in BOOLEAN
  /\ blk = 0
  /\ deep \in 0..MaxDepth
  /\ Start

(* ------------------------------ nftw_cb -------------------------------- *)
StBlocks(n) == blk + BlkOff(n)

\* objtype handed to the callback for object n (FTW_PHYS: lstat, so a
\* symbolic link is FTW_SL whatever it points to)
ObjType(n) ==
  IF fault[n] = "NS" THEN "FTW_NS"
  ELSE IF fault[n] = "DNR" THEN "FTW_DNR"
  ELSE IF fault[n] = "UNK" THEN "FTW_UNKNOWN"
  ELSE IF Kind(n) = "dir" THEN "FTW_D"
  ELSE IF Kind(n) = "symlink" THEN "FTW_SL"
  ELSE "FTW_F"

\* logical = (st->st_blocks / 2) + (st->st_blocks % 2)
LogicalHalf(b) == b \div 2
Logical(b) == (b \div 2) + (b % 2)

\* "%s\t%ld\t%ld.%09ld0\t%ld\n"
LineAtime(n) ==
  [path |-> n, size |-> StSize(n), sec |-> MtimSec(n) + run,
   frac |-> MtimNsec(n) * 10, kb |-> Logical(StBlocks(n))]
Line(n) ==
  [path |-> n, size |-> StSize(n), sec |-> MtimSec(n),
   frac |-> MtimNsec(n) * 10, kb |-> Logical(StBlocks(n))]

\* printf(...) < 0
PrintfFails(n) == fault[n] = "PF"

\* nftw_warn(): error = 1
nftw_warnNoFlag(e) == e
nftw_warn(e) == 1

\* return value of nftw_cb
CbRetPrintOk(n, objtype) ==
  IF objtype = "FTW_F" THEN 0
  ELSE IF objtype \in {"FTW_D", "FTW_SL", "FTW_DNR", "FTW_NS"} THEN 0
  ELSE 1
CbRetAbortOnWarn(n, objtype) ==
  IF objtype = "FTW_F" THEN (IF PrintfFails(n) THEN 1 ELSE 0)
  ELSE IF objtype \in {"FTW_D", "FTW_SL"} THEN 0
  ELSE 1
CbRetUnknownOk(n, objtype) ==
  IF objtype = "FTW_F" THEN (IF PrintfFails(n) THEN 1 ELSE 0)
  ELSE 0
CbRet(n, objtype) ==
  IF objtype = "FTW_F" THEN (IF PrintfFails(n) THEN 1 ELSE 0)
  ELSE IF objtype \in {"FTW_D", "FTW_SL", "FTW_DNR", "FTW_NS"} THEN 0
  ELSE 1

\* value of error after nftw_cb
CbErrorPrintSilent(n, objtype, e) ==
  IF objtype \in {"FTW_F", "FTW_D", "FTW_SL"} THEN e ELSE nftw_warn(e)
CbError(n, objtype, e) ==
  IF objtype = "FTW_F" THEN (IF PrintfFails(n) THEN nftw_warn(e) ELSE e)
  ELSE IF objtype \in {"FTW_D", "FTW_SL"} THEN e
  ELSE nftw_warn(e)

\* lines nftw_cb adds to stdout
CbOutAll(n, objtype) ==
  IF objtype \in {"FTW_F", "FTW_SL", "FTW_D"} /\ ~PrintfFails(n)
  THEN <<Line(n)>> ELSE <<>>
CbOut(n, objtype) ==
  IF objtype = "FTW_F" /\ ~PrintfFails(n) THEN <<Line(n)>> ELSE <<>>

(* ------------------------------- nftw ---------------------------------- *)
\* the object is there in this run
Exists(n) == n \notin ChainDirs \/ ChainIdx(n) <= deep

\* The entries of directory d in the order readdir returns them
ReadDir(d) ==
  LET e == SelectSeq(Entries(d), Exists)
  IN IF rev THEN Reverse(e) ELSE e

\* FTW_MOUNT: an object on another device than the root is not reported
\* (a failed stat leaves no device to compare)
CrossesNoCheck(n, d) == FALSE
Crosses(n, d) == fault[n] # "NS" /\ Dev(n) # d

\* FTW_PHYS: only real, readable directories are descended into
DescendsNever(n) == FALSE
DescendsLinks(n) ==
  \/ ObjType(n) = "FTW_D"
  \/ ObjType(n) = "FTW_SL" /\ Kind(LinkTarget(n)) = "dir"
Descends(n) == ObjType(n) = "FTW_D"

\* the directory read once n has been reported
DirOf(n) == IF Kind(n) = "symlink" THEN LinkTarget(n) ELSE n

\* opendir(): the walker goes down into a directory before it reads on in
\* the directory above
PushLast(f, s) == s \o <<f>>
Push(f, s) == <<f>> \o s

\* number of directory streams the walk holds open
Fds(s) == Cardinality({k \in 1..Len(s) : s[k].fd})

\* nftw(path, fn, depth, flags) uses at most depth descriptors: with that
\* many directories open, the one being read is closed before the next one
\* is opened
OpenDirNoLimit(f, s) == Push(f, s)
OpenDir(f, s) ==
  IF Fds(s) >= MAX_DESCRIPTORS
  THEN Push(f, <<[s[1] EXCEPT !.fd = FALSE]>> \o Tail(s))
  ELSE Push(f, s)

\* ... and opened again when the walk comes back to read on in it
Reopen(s) ==
  IF s # <<>> /\ ~s[1].fd
  THEN <<[s[1] EXCEPT !.fd = TRUE]>> \o Tail(s)
  ELSE s

\* closes the directory on top only
UnwindOne(s) ==
  IF s # <<>> /\ s[1].rest = <<>> THEN Tail(s) ELSE s

RECURSIVE Unwind(_)
\* closedir() every directory that has no entry left
Unwind(s) ==
  IF s = <<>> THEN s
  ELSE IF s[1].rest = <<>> THEN Unwind(Tail(s))
  ELSE s

Visit(n, from) == [root |-> i, path |-> n, from |-> from, type |-> ObjType(n),
             ret |-> CbRet(n, ObjType(n)),
             out |-> CbOut(n, ObjType(n)) # <<>>]

\* One object n met by the walker while reading directory `from' (the root:
\* itself), d the device of the root, s the stack of directories with n
\* already taken off.
Process(n, from, d, s) ==
  IF fault[n] = "ERR" THEN
    /\ pc' = "ret"
    /\ ret' = -1
    /\ stack' = <<>>
    /\ UNCHANGED <<error, visited, skipped, manifest>>
  ELSE IF Crosses(n, d) THEN
    /\ skipped' = Append(skipped, [root |-> i, path |-> n])
    /\ stack' = Reopen(Unwind(s))
    /\ IF Unwind(s) = <<>> THEN pc' = "ret" /\ ret' = 0
       ELSE pc' = "nftw" /\ ret' = ret
    /\ UNCHANGED <<error, visited, manifest>>
  ELSE
    /\ visited' = Append(visited, Visit(n, from))
    /\ manifest' = manifest \o CbOut(n, ObjType(n))
    /\ error' = CbError(n, ObjType(n), error)
    /\ UNCHANGED skipped
    /\ IF CbRet(n, ObjType(n)) # 0 THEN
         /\ pc' = "ret"
         /\ ret' = CbRet(n, ObjType(n))
         /\ stack' = <<>>
       ELSE
         LET f == [dir |-> n, rest |-> ReadDir(DirOf(n)), fd |-> TRUE]
             s2 == IF Descends(n)
                   THEN Reopen(Unwind(OpenDir(f, s)))
                   ELSE Reopen(Unwind(s))
         IN /\ stack' = s2
            /\ IF s2 = <<>> THEN pc' = "ret" /\ ret' = 0
               ELSE pc' = "nftw" /\ ret' = ret

(* ------------------------------- main ---------------------------------- *)
\* if (argc < 2)
NoArgsAllowed(c) == c < 1
NoArgs(c) == c < 2

\* if (argc < 2) { usage; exit(1); }
Usage ==
  /\ pc = "main"
  /\ NoArgs(argc)
  /\ pc' = "exit"
  /\ status' = 1
  /\ UNCHANGED <<env, run, first, i, ret, error, dev, stack, visited, skipped, manifest,
                 walks>>

\* ret = nftw(argv[i], nftw_cb, MAX_DESCRIPTORS, flags): the root object
NftwRoot ==
  /\ pc = "main"
  /\ ~NoArgs(argc)
  /\ i < argc
  /\ dev' = Dev(argv[i])
  /\ Process(argv[i], argv[i], Dev(argv[i]), <<>>)
  /\ UNCHANGED <<env, run, first, i, walks, status>>

\* ... the next entry of the directory on top of the stack
NftwEntry ==
  /\ pc = "nftw"
  /\ stack # <<>>
  /\ stack[1].rest # <<>>
  /\ LET top == stack[1]
         n == Head(top.rest)
         s == <<[top EXCEPT !.rest = Tail(top.rest)]>> \o Tail(stack)
     IN Process(n, top.dir, dev, s)
  /\ UNCHANGED <<env, run, first, i, dev, walks, status>>

\* if (ret == -1) error = 1
MainErrorReset(r, e) == IF r = -1 THEN 1 ELSE 0
MainErrorIgnore(r, e) == e
MainError(r, e) == IF r = -1 THEN 1 ELSE e

\* if (ret == 1) break
MainBreakNever(r) == FALSE
MainBreakOnError(r) == r # 0
MainBreak(r) == r = 1

\* for (...; i++)
LoopNextSkipSame(k) ==
  IF k + 1 < argc /\ argv[k + 1] = argv[k] THEN k + 2 ELSE k + 1
LoopNext(k) == k + 1

\* the rest of the loop body after nftw() has returned
AfterNftw ==
  /\ pc = "ret"
  /\ error' = MainError(ret, error)
  /\ IF MainBreak(ret) THEN i' = i ELSE i' = LoopNext(i)
  /\ IF MainBreak(ret) \/ LoopNext(i) >= argc
     THEN pc' = "return" ELSE pc' = "main"
  /\ walks' = Append(walks, ret)
  /\ UNCHANGED <<env, run, first, ret, dev, stack, visited, skipped, manifest, status>>

\* return (error)
ExitStatus(e) == e

\* (also reached when the loop condition i < argc fails at the first test)
Return ==
  /\ pc = "return" \/ (pc = "main" /\ ~NoArgs(argc) /\ i >= argc)
  /\ pc' = "exit"
  /\ status' = ExitStatus(error)
  /\ UNCHANGED <<env, run, first, i, ret, error, dev, stack, visited, skipped, manifest,
                 walks>>

Next == Usage \/ NftwRoot \/ NftwEntry \/ AfterNftw \/ Return

Spec == Init /\ [][Next]_vars

SpecDeep == InitDeep /\ [][Next]_vars

SpecBlocks == InitBlocks /\ [][Next]_vars

\* The program is one sequential thread: it takes its next step whenever
\* it has one.
SpecFair == Init /\ [][Next]_vars /\ WF_vars(Next)

\* The program is started once more, with the same arguments on the same
\* unmodified tree, after its first run has exited.
Rerun ==
  /\ pc = "exit"
  /\ run = 1
  /\ run' = 2
  /\ first' = manifest
  /\ pc' = "main"
  /\ i' = 1
  /\ ret' = 0
  /\ error' = 0
  /\ dev' = 0
  /\ stack' = <<>>
  /\ visited' = <<>>
  /\ skipped' = <<>>
  /\ manifest' = <<>>
  /\ walks' = <<>>
  /\ status' = -1
  /\ UNCHANGED env

NextTwice == Next \/ Rerun

SpecTwice == Init /\ [][NextTwice]_vars

(* ------------------------- history operators --------------------------- *)
Idx(s) == 1..Len(s)

\* the callback stopped the walk of root number r
Aborted(r) == \E k \in Idx(visited) : visited[k].root = r /\ visited[k].ret # 0

VisitsOf(r, n) ==
  {k \in Idx(visited) : visited[k].root = r /\ visited[k].path = n}

LinesOf(n) == {k \in Idx(manifest) : manifest[k].path = n}

\* the objects strictly below each object
Under == [d \in Node |-> {n \in Node : Below(n, d)}]

Tree(root) == {root} \cup Under[root]

\* the objects of the tree of a root that lie below an entry on another
\* device than the root
Foreign ==
  [r \in Roots |->
     {n \in Under[r] : \E m \in Under[r] : Dev(m) # Dev(r) /\ n \in Under[m]}]

RECURSIVE Reached(_, _)
\* n is an object a walk of root gets to when nothing stops the walk: every
\* directory above it is readable, on the device of the root, and so is n
\* (or its stat failed)
Reached(n, root) ==
  IF n = root THEN TRUE
  ELSE IF Parent(n) = n THEN FALSE
  ELSE /\ Reached(Parent(n), root)
       /\ Kind(Parent(n)) = "dir"
       /\ fault[Parent(n)] = "none"
       /\ Dev(n) = Dev(root) \/ fault[n] = "NS"

\* no symbolic link and no other device in the tree
Plain(root) ==
  \A n \in Tree(root) : Kind(n) # "symlink" /\ Dev(n) = Dev(root)

Exited == status # -1

(* ------------------------------ claims --------------------------------- *)

\* C1 (as stated): with roots [R1, R2] and the walk of R1 stopped by the
\* callback, R2 is still walked and every regular file of R2 has its line.
C1_Original ==
  (Exited /\ Len(argv) = 2 /\ Aborted(1)) =>
    \A n \in Node :
      (Reached(n, argv[2]) /\ Kind(n) = "file" /\ fault[n] = "none") =>
        \E k \in VisitsOf(2, n) : visited[k].out

\* C1 (amended): once the callback has stopped the walk of the first root,
\* no object of a later root is ever visited, no line is printed any more,
\* and the exit status is 1.
C1_AbortStopsLaterRoots ==
  (Len(argv) >= 2 /\ Aborted(1)) =>
    /\ \A k \in Idx(visited) : visited[k].root = 1
    /\ Len(manifest) = Cardinality({k \in Idx(visited) : visited[k].out})
    /\ Len(walks) <= 1
    /\ Exited => status = 1

C1_Witness ==
  /\ Exited
  /\ Len(argv) = 2
  /\ Aborted(1)
  /\ \E n \in Node : Reached(n, argv[2]) /\ Kind(n) = "file" /\ fault[n] = "none"

\* C2: when nftw() returns 1 the flag `error' is already set, and the loop
\* of main starts no further walk: the visit that returned non-zero is the
\* last visit of the run and the walk that returned 1 is the last walk.
C2_AbortEndsLoop ==
  /\ (pc = "ret" /\ ret = 1) => error = 1
  /\ \A k \in Idx(visited) : visited[k].ret # 0 => k = Len(visited)
  /\ \A k \in Idx(walks) :
       walks[k] = 1 => k = Len(walks) /\ pc \in {"return", "exit"} /\ error = 1

C2_Witness ==
  /\ Exited
  /\ Len(argv) = 2
  /\ walks = <<1>>
  /\ \E k \in Idx(visited) : visited[k].type = "FTW_UNKNOWN"

\* C3 (as stated): a visit of a regular file whose line could not be
\* printed sets the flag and returns 0.
C3_Original ==
  \A k \in Idx(visited) :
    (visited[k].type = "FTW_F" /\ ~visited[k].out) =>
      visited[k].ret = 0 /\ error = 1

\* C3 (amended): a visit of a regular file whose line could not be printed
\* sets the flag and returns 1: the line is lost, that visit is the last of
\* the run, and no later root is walked.
C3_PrintFailureAborts ==
  \A k \in Idx(visited) :
    (visited[k].type = "FTW_F" /\ ~visited[k].out) =>
      /\ visited[k].ret = 1
      /\ error = 1
      /\ k = Len(visited)
      /\ LinesOf(visited[k].path) =
           {j \in Idx(manifest) : \E m \in 1..(k - 1) :
              visited[m].path = visited[k].path /\ visited[m].out}
      /\ Len(walks) <= visited[k].root
      /\ Exited => status = 1

C3_Witness ==
  /\ Exited
  /\ Len(argv) = 2
  /\ \E k \in Idx(visited) :
       visited[k].root = 1 /\ visited[k].type = "FTW_F" /\ ~visited[k].out

\* a run in which every root was walked to the end and nothing went wrong
CleanRun ==
  /\ Len(walks) = Len(argv)
  /\ \A k \in Idx(walks) : walks[k] = 0
  /\ \A k \in Idx(visited) :
       /\ visited[k].type \in {"FTW_F", "FTW_D", "FTW_SL"}
       /\ visited[k].type = "FTW_F" => visited[k].out

\* C4: with at least one root, the exit status is 0 exactly when every root
\* was walked to completion without any error, and 1 in every other run.
C4_ExitStatus ==
  (Exited /\ Len(argv) >= 1) =>
    /\ status = 0 <=> CleanRun
    /\ status # 0 <=> ~CleanRun
    /\ status \in {0, 1}

C4_Witness == status = 0 /\ Len(argv) = 2 /\ argv[1] = "A"

\* C5: a tree without symbolic links and other devices, walked as the only
\* root with no error, has every object visited exactly once and every
\* regular file printed exactly once.
C5_ExactlyOnce ==
  (Len(argv) = 1 /\ Plain(argv[1])
     /\ \A n \in Tree(argv[1]) : fault[n] = "none") =>
    /\ \A n \in Node : Cardinality(VisitsOf(1, n)) <= 1
    /\ \A n \in Node : Cardinality(LinesOf(n)) <= 1
    /\ Exited =>
         /\ \A n \in Tree(argv[1]) : Cardinality(VisitsOf(1, n)) = 1
         /\ \A n \in Tree(argv[1]) :
              Kind(n) = "file" => Cardinality(LinesOf(n)) = 1
         /\ Len(visited) = Cardinality(Tree(argv[1]))
         /\ Len(manifest) =
              Cardinality({n \in Tree(argv[1]) : Kind(n) = "file"})

C5_Witness ==
  /\ Exited
  /\ argv = <<"B">>
  /\ \A n \in Tree("B") : fault[n] = "none"
  /\ Len(manifest) = 2

\* C6: no line of the manifest is for a symbolic link, a symbolic link is
\* never reported as a directory, and no object is read out of a symbolic
\* link: every visited entry comes from a real directory.
C6_NoSymlinkFollowed ==
  /\ \A k \in Idx(manifest) : Kind(manifest[k].path) # "symlink"
  /\ \A k \in Idx(visited) :
       /\ Kind(visited[k].path) = "symlink" => visited[k].type # "FTW_D"
       /\ visited[k].path # argv[visited[k].root] =>
            Kind(visited[k].from) = "dir"
  /\ \A k \in Idx(stack) : Kind(stack[k].dir) = "dir"
  /\ \A r \in Idx(argv) : Cardinality(VisitsOf(r, LinkTarget("A/l") )) <= 1

C6_Witness ==
  /\ Exited
  /\ \E k \in Idx(visited) :
       visited[k].path = "A/l" /\ visited[k].type = "FTW_SL"
  /\ \E k \in Idx(visited) : visited[k].path = "A/d/g" /\ visited[k].out

\* C7: during a walk the recorded device is the device of the root being
\* walked, and nothing below an entry on another device is visited or
\* printed.
C7_MountBoundary ==
  /\ pc = "nftw" => dev = Dev(argv[i])
  /\ \A k \in Idx(visited) :
       visited[k].path \notin Foreign[argv[visited[k].root]]
  /\ \A k \in Idx(manifest) : \A r \in Idx(argv) :
       manifest[k].path \notin Foreign[argv[r]]

C7_Witness ==
  /\ Exited
  /\ \E k \in Idx(skipped) : skipped[k].path = "A/m"
  /\ \E k \in Idx(visited) : visited[k].path = "A/d/g"
  /\ \E k \in Idx(visited) : visited[k].path = "A/f"

\* C8: the last field of every line is ceil(st_blocks / 2): half the block
\* count when it is even, half of it rounded down plus one when it is odd.
C8_PhysicalSize ==
  \A k \in Idx(manifest) :
    LET b == StBlocks(manifest[k].path)
        kb == manifest[k].kb
    IN /\ b % 2 = 0 => 2 * kb = b
       /\ b % 2 = 1 => 2 * kb = b + 1
       /\ 2 * kb >= b /\ 2 * (kb - 1) < b

C8_Witness ==
  /\ \E k \in Idx(manifest) : StBlocks(manifest[k].path) % 2 = 1
  /\ \E k \in Idx(manifest) :
       StBlocks(manifest[k].path) % 2 = 0 /\ StBlocks(manifest[k].path) > 0
  /\ \E k \in Idx(manifest) : StBlocks(manifest[k].path) = 0

\* C9: a visit of an unreadable directory or of an object whose stat failed
\* prints no line, sets the flag and returns 0; when nothing else goes
\* wrong, every other object the walk gets to, in this root and in all the
\* roots after it, is visited.
C9_WarnAndContinue ==
  /\ \A k \in Idx(visited) :
       visited[k].type \in {"FTW_DNR", "FTW_NS"} =>
         ~visited[k].out /\ visited[k].ret = 0 /\ error = 1
  /\ (Exited /\ \A n \in Node : fault[n] \in {"none", "NS", "DNR"}) =>
       \A r \in Idx(argv) : \A n \in Node :
         Reached(n, argv[r]) => Cardinality(VisitsOf(r, n)) = 1

C9_Witness ==
  /\ Exited
  /\ Len(argv) = 2
  /\ \E k \in Idx(visited) :
       /\ visited[k].root = 1
       /\ visited[k].type \in {"FTW_DNR", "FTW_NS"}
       /\ visited[k].path # argv[1]
       /\ \E j \in Idx(visited) :
            j > k /\ visited[j].root = 1 /\ visited[j].from = visited[k].from
  /\ \E k \in Idx(visited) : visited[k].root = 2 /\ visited[k].out

\* C10: `error' starts at 0 and never goes back from 1 to 0; the exit
\* status of a run with at least one root is the value it has at the end.
C10_FlagMonotone ==
  /\ error = 0
  /\ [][error' >= error /\ error' \in {0, 1}]_vars
  /\ []((Exited /\ Len(argv) >= 1) => status = error)

C10_Witness ==
  /\ Exited
  /\ error = 1
  /\ \E k \in Idx(visited) :
       /\ visited[k].type \in {"FTW_DNR", "FTW_NS"}
       /\ \E j \in Idx(visited) : j > k /\ visited[j].out
  /\ Len(walks) = 2 /\ walks[2] = 0

\* C11: only a visit with objtype FTW_F adds a line: a visit of a
\* directory, a symbolic link, an unreadable directory, an object whose
\* stat failed or an object of unknown type leaves stdout as it is, so the
\* manifest has as many lines as there were FTW_F visits that printed.
C11_OnlyRegularFiles ==
  /\ \A k \in Idx(visited) : visited[k].out => visited[k].type = "FTW_F"
  /\ Len(manifest) =
       Cardinality({k \in Idx(visited) :
                      visited[k].type = "FTW_F" /\ visited[k].ret = 0})
  /\ \A k \in Idx(manifest) :
       Kind(manifest[k].path) = "file" /\ fault[manifest[k].path] = "none"

C11_Witness ==
  /\ Exited
  /\ Len(manifest) >= 1
  /\ \E k \in Idx(visited) : visited[k].type = "FTW_D"
  /\ \E k \in Idx(visited) : visited[k].type = "FTW_SL"
  /\ \E k \in Idx(visited) : visited[k].type \in {"FTW_DNR", "FTW_NS"}

\* C12: within the walk of one root a directory is visited before anything
\* below it, and once the walk has visited an object outside a directory
\* it has been into, it visits nothing below that directory any more.
C12_PreOrder ==
  \A k \in Idx(visited) :
    LET r == visited[k].root
        n == visited[k].path
    IN /\ n # argv[r] =>
            \E j \in 1..(k - 1) :
              visited[j].root = r /\ visited[j].path = Parent(n)
       /\ \A j \in 1..(k - 1) :
            (visited[j].root = r /\ n \in Under[visited[j].path]) =>
              \A m \in (j + 1)..(k - 1) :
                visited[m].path \in Under[visited[j].path]

C12_Witness ==
  /\ Exited
  /\ \E j, k \in Idx(visited) :
       /\ j + 1 = k
       /\ visited[j].path = "A/d" /\ visited[k].path = "A/d/g"
       /\ j > 2 /\ k < Len(visited)

\* the lines printed by the visits made so far, in the order of the visits
LinesOfVisits ==
  LET o == SelectSeq(visited, LAMBDA v : v.out)
  IN [k \in 1..Len(o) |-> Line(o[k].path)]

\* C13: the roots are walked one after the other in the order of argv:
\* the visits, and with them the lines, come in the order of the roots, walk
\* number k is the walk of argv[k], and unless a walk returned 1 every
\* entry of argv is walked, an entry that repeats an earlier one as well:
\* without errors a file has one line for every time its root is listed.
C13_RootsInOrder ==
  /\ \A k \in 2..Len(visited) : visited[k - 1].root <= visited[k].root
  /\ manifest = LinesOfVisits
  /\ \A k \in Idx(visited) :
       visited[k].root \in Idx(argv) /\
       visited[k].path \in Tree(argv[visited[k].root])
  /\ \A k \in Idx(visited) : Len(walks) < visited[k].root => visited[k].root = i
  /\ (Exited /\ \A k \in Idx(walks) : walks[k] # 1) => Len(walks) = Len(argv)
  /\ (Exited /\ \A n \in Node : fault[n] = "none") =>
       \A R \in Roots : \A n \in Tree(R) :
         (Kind(n) = "file" /\ Reached(n, R)) =>
           Cardinality(LinesOf(n)) =
             Cardinality({r \in Idx(argv) : argv[r] = R})

C13_Witness ==
  /\ Exited
  /\ argv = <<"B", "B">>
  /\ Cardinality(LinesOf("B/f")) = 2
  /\ Cardinality(LinesOf("B/d/g")) = 2
  /\ Len(visited) = 8

C16_NoRoots ==
  Len(argv) = 0 =>
    /\ visited = <<>> /\ skipped = <<>> /\ walks = <<>> /\ manifest = <<>>
    /\ stack = <<>>
    /\ pc \in {"main", "exit"}
    /\ pc = "exit" => status = 1
    /\ pc = "main" => status = -1

C16_Witness == Len(argv) = 0 /\ Exited /\ status # 0 /\ manifest = <<>>

\* C17: a visit with an objtype nftw_cb does not know prints no line, sets
\* the flag and returns 1; nftw stops there: all directories are closed,
\* the walk returns 1, and that visit stays the last one of the run, so
\* the manifest keeps the length it had before it.
C17_UnknownTypeAborts ==
  \A k \in Idx(visited) :
    visited[k].type = "FTW_UNKNOWN" =>
      /\ ~visited[k].out
      /\ visited[k].ret = 1
      /\ error = 1
      /\ k = Len(visited)
      /\ stack = <<>>
      /\ pc \in {"ret", "return", "exit"}
      /\ ret = 1
      /\ Len(manifest) =
           Cardinality({j \in 1..(k - 1) : visited[j].out})

C17_Witness ==
  /\ Exited
  /\ \E k \in Idx(visited) :
       /\ visited[k].type = "FTW_UNKNOWN"
       /\ k > 2
       /\ Len(manifest) >= 1
       /\ \E n \in Node :
            /\ Reached(n, argv[visited[k].root])
            /\ VisitsOf(visited[k].root, n) = {}

\* n is an entry the walk of root comes upon, reported or not: the root, or
\* an entry of a directory the walk reads
Met(n, root) ==
  \/ n = root
  \/ /\ Parent(n) # n
     /\ Reached(Parent(n), root)
     /\ Kind(Parent(n)) = "dir"
     /\ fault[Parent(n)] = "none"

\* C18: when nftw returns -1 the walk of that root is over (no directory is
\* left open, nothing more of it is visited), main sets the flag and goes
\* on with the next root: when the only faults are such failures, every
\* root of argv is walked, a root without failure completely.
C18_WalkerFailureContinues ==
  /\ (pc = "ret" /\ ret = -1) => stack = <<>>
  /\ \A r \in Idx(walks) : walks[r] = -1 => error = 1
  /\ \A k \in Idx(visited) : fault[visited[k].path] # "ERR"
  /\ (\A n \in Node : fault[n] \in {"none", "ERR"}) =>
       /\ \A r \in Idx(walks) :
            walks[r] = -1 <=>
              \E n \in Node : Met(n, argv[r]) /\ fault[n] = "ERR"
       /\ \A r \in Idx(walks) : \A n \in Node :
            /\ (walks[r] = 0 /\ Reached(n, argv[r])) =>
                 Cardinality(VisitsOf(r, n)) = 1
            /\ (walks[r] = -1 /\ \E m \in Node :
                  fault[m] = "ERR" /\ (m = argv[r] \/ n \in Under[m])) =>
                 VisitsOf(r, n) = {}
       /\ Exited => Len(walks) = Len(argv)

C18_Witness ==
  /\ Exited
  /\ Len(argv) = 2
  /\ walks = <<-1, 0>>
  /\ \E k \in Idx(visited) : visited[k].root = 1
  /\ \E k \in Idx(visited) : visited[k].root = 2 /\ visited[k].out

\* C19: the loop of main never ends early with the flag clear: a visit that
\* returned non-zero has set it, so when main is past the loop with a root
\* left unwalked error is 1, and an exit status of 0 means that every root
\* was walked and every FTW_F visit printed its line.
C19_EarlyEndSetsFlag ==
  /\ \A k \in Idx(visited) : visited[k].ret # 0 => error = 1
  /\ (pc \in {"return", "exit"} /\ Len(walks) < Len(argv)) => error = 1
  /\ status = 0 =>
       /\ Len(walks) = Len(argv)
       /\ \A r \in Idx(argv) : \E k \in Idx(visited) : visited[k].root = r
       /\ \A k \in Idx(visited) : visited[k].type = "FTW_F" => visited[k].out
       /\ \A k \in Idx(visited) : visited[k].ret = 0

C19_Witness ==
  /\ pc = "return"
  /\ Len(walks) < Len(argv)
  /\ error = 1
  /\ \E k \in Idx(visited) : visited[k].type = "FTW_F" /\ ~visited[k].out

\* C20: every run terminates: in the end the program has exited with a
\* status, with no directory left open and with nftw returned for every
\* root on which a walk was started.
C20_Terminates ==
  <>(/\ pc = "exit"
     /\ status \in {0, 1}
     /\ stack = <<>>
     /\ \A k \in Idx(visited) : visited[k].root <= Len(walks))

C20_Witness ==
  /\ Exited
  /\ Len(argv) = 2
  /\ Len(walks) = 2
  /\ \E k \in Idx(visited) : visited[k].type \in {"FTW_DNR", "FTW_NS"}
  /\ Len(visited) >= 8

====
